---- MODULE Spec2Model ----
(***************************************************************************)
(* Model of the store core of finance_app.py: TransactionService and       *)
(* BudgetService (create / update / delete / queries, full-snapshot save), *)
(* CategoryService, StatisticsService and the list refresh of MainScreen.  *)
(*                                                                         *)
(* Python strings whose content the code inspects (dates, ids, notes,      *)
(* categories, keywords) are sequences of one-character strings.  The two  *)
(* transaction-type literals are kept as atoms: the code only compares     *)
(* them for equality.  Amounts are integers.  An object reference into a   *)
(* list is the 1-based position of the object in that list; 0 is None.     *)
(***************************************************************************)
EXTENDS Integers, Sequences, FiniteSets, TLC

-----------------------------------------------------------------------------
(* Bounds *)

\* largest number of transactions the store is allowed to grow to
MaxLen == 3

\* largest number of budgets the store is allowed to grow to
MaxBudgets == 3

\* largest number of saves that fail in one behaviour
MaxSaveFailures == 1

-----------------------------------------------------------------------------
(* TransactionType (the literals are Chinese in the source; TLA+ strings   *)
(* are ASCII)                                                              *)

INCOME == "income"
EXPENSE == "expense"

-----------------------------------------------------------------------------
(* Characters and decimal numbers *)

Digits == {"0", "1", "2", "3", "4", "5", "6", "7", "8", "9"}

DigitVal(c) ==
    CASE c = "0" -> 0 [] c = "1" -> 1 [] c = "2" -> 2 [] c = "3" -> 3
      [] c = "4" -> 4 [] c = "5" -> 5 [] c = "6" -> 6 [] c = "7" -> 7
      [] c = "8" -> 8 [] c = "9" -> 9

DigitChar(d) ==
    CASE d = 0 -> "0" [] d = 1 -> "1" [] d = 2 -> "2" [] d = 3 -> "3"
      [] d = 4 -> "4" [] d = 5 -> "5" [] d = 6 -> "6" [] d = 7 -> "7"
      [] d = 8 -> "8" [] d = 9 -> "9"

IsDigits(s) == \A i \in 1..Len(s) : s[i] \in Digits

\* int() of a digit string
RECURSIVE Num(_)
Num(s) ==
    IF Len(s) = 0 THEN 0
    ELSE 10 * Num(SubSeq(s, 1, Len(s) - 1)) + DigitVal(s[Len(s)])

\* str() of a natural number
RECURSIVE StrNat(_)
StrNat(n) ==
    IF n < 10 THEN <<DigitChar(n)>>
    ELSE StrNat(n \div 10) \o <<DigitChar(n % 10)>>

\* str() of an integer
StrInt(n) == IF n < 0 THEN <<"-">> \o StrNat(0 - n) ELSE StrNat(n)

\* the format spec 06d: zero-padded to at least six digits
RECURSIVE ZeroPad(_, _)
ZeroPad(s, w) == IF Len(s) >= w THEN s ELSE ZeroPad(<<"0">> \o s, w)

Format06d(n) == ZeroPad(StrNat(n), 6)

\* str.lower() on the letters that occur in the model's strings
LowerChar(c) ==
    CASE c = "L" -> "l" [] c = "F" -> "f" [] c = "S" -> "s" [] c = "B" -> "b"
      [] OTHER -> c

Lower(s) == [i \in 1..Len(s) |-> LowerChar(s[i])]

\* the Python operator `k in s` on strings
Contains(s, k) ==
    \E i \in 1..(Len(s) - Len(k) + 1) : SubSeq(s, i, i + Len(k) - 1) = k

-----------------------------------------------------------------------------
(* datetime.strptime(date, "%Y-%m-%d")                                     *)
(*                                                                         *)
(* The format compiles to the regular expression                           *)
(*   (\d\d\d\d)-(1[0-2]|0[1-9]|[1-9])-(3[01]|[12]\d|0[1-9]|[1-9]| [1-9])   *)
(* which must consume the whole string; the fields must then form a real   *)
(* calendar date.  A failure is the ValueError the callers catch.          *)

ValueError == [ok |-> FALSE, y |-> 0, m |-> 0, d |-> 0]

NonZero == Digits \ {"0"}

\* s[1..5] matches \d\d\d\d-
YearMatch(s) ==
    /\ Len(s) >= 5
    /\ \A i \in 1..4 : s[i] \in Digits
    /\ s[5] = "-"

\* s[i..j] (one or two characters) matches 1[0-2]|0[1-9]|[1-9]
MonthMatch(s, i, j) ==
    IF j = i THEN s[i] \in NonZero
    ELSE \/ s[i] = "1" /\ s[j] \in {"0", "1", "2"}
         \/ s[i] = "0" /\ s[j] \in NonZero

\* s[i..j] (one or two characters) matches 3[01]|[12]\d|0[1-9]|[1-9]| [1-9]
DayMatch(s, i, j) ==
    IF j = i THEN s[i] \in NonZero
    ELSE \/ s[i] = "3" /\ s[j] \in {"0", "1"}
         \/ s[i] \in {"1", "2"} /\ s[j] \in Digits
         \/ s[i] = "0" /\ s[j] \in NonZero
         \/ s[i] = " " /\ s[j] \in NonZero

\* int() of the field s[i..j]
FieldNum(s, i, j) ==
    IF j = i \/ s[i] = " " THEN DigitVal(s[j])
    ELSE 10 * DigitVal(s[i]) + DigitVal(s[j])

YearNum(s) ==
    1000 * DigitVal(s[1]) + 100 * DigitVal(s[2]) + 10 * DigitVal(s[3])
      + DigitVal(s[4])

IsLeap(y) == (y % 4 = 0 /\ y % 100 # 0) \/ y % 400 = 0

DaysInMonth(y, m) ==
    IF m = 2 THEN (IF IsLeap(y) THEN 29 ELSE 28)
    ELSE IF m \in {4, 6, 9, 11} THEN 30 ELSE 31

\* position of the dash that ends the month field, 0 when there is none
MonthEnd(s) ==
    IF Len(s) >= 7 /\ s[7] = "-" THEN 7
    ELSE IF Len(s) >= 8 /\ s[8] = "-" THEN 8
    ELSE 0

\* the string matches the regular expression from its start to its end
FormatMatch(s) ==
    /\ YearMatch(s)
    /\ MonthEnd(s) # 0
    /\ MonthMatch(s, 6, MonthEnd(s) - 1)
    /\ Len(s) - MonthEnd(s) \in {1, 2}
    /\ DayMatch(s, MonthEnd(s) + 1, Len(s))

strptime(s) ==
    IF ~FormatMatch(s) THEN ValueError
    ELSE IF \/ YearNum(s) < 1
            \/ FieldNum(s, MonthEnd(s) + 1, Len(s))
                 > DaysInMonth(YearNum(s), FieldNum(s, 6, MonthEnd(s) - 1))
         THEN ValueError
         ELSE [ok |-> TRUE,
               y |-> YearNum(s),
               m |-> FieldNum(s, 6, MonthEnd(s) - 1),
               d |-> FieldNum(s, MonthEnd(s) + 1, Len(s))]

\* mutant of DatetimeLE: the comparison is strict
DatetimeLT(a, b) ==
    \/ a.y < b.y
    \/ a.y = b.y /\ a.m < b.m
    \/ a.y = b.y /\ a.m = b.m /\ a.d < b.d

\* datetime comparison a <= b (both parsed successfully)
DatetimeLE(a, b) ==
    \/ a.y < b.y
    \/ a.y = b.y /\ a.m < b.m
    \/ a.y = b.y /\ a.m = b.m /\ a.d <= b.d

-----------------------------------------------------------------------------
(* The strings of the model *)

EmptyStr == <<>>

D_2024_01_05 == <<"2", "0", "2", "4", "-", "0", "1", "-", "0", "5">>
D_2024_1_20 == <<"2", "0", "2", "4", "-", "1", "-", "2", "0">>
D_2024_02_10 == <<"2", "0", "2", "4", "-", "0", "2", "-", "1", "0">>
\* matches the format, but February has no 30th
D_2024_02_30 == <<"2", "0", "2", "4", "-", "0", "2", "-", "3", "0">>
\* does not match the format
D_2024s01s05 == <<"2", "0", "2", "4", "/", "0", "1", "/", "0", "5">>

D_2023_12_31 == <<"2", "0", "2", "3", "-", "1", "2", "-", "3", "1">>
D_9999_12_15 == <<"9", "9", "9", "9", "-", "1", "2", "-", "1", "5">>

\* the first and last days get_transactions_by_month formats
MonthBoundStrings ==
    { <<"2", "0", "2", "3", "-", "1", "2", "-", "0", "1">>,
      <<"2", "0", "2", "4", "-", "0", "1", "-", "0", "1">>,
      <<"2", "0", "2", "4", "-", "0", "1", "-", "3", "1">>,
      <<"2", "0", "2", "4", "-", "0", "2", "-", "0", "1">>,
      <<"2", "0", "2", "4", "-", "0", "2", "-", "2", "9">> }

\* the date strings of the model
DateStrings ==
    { D_2024_01_05, D_2024_1_20, D_2024_02_10, D_2024_02_30, D_2024s01s05,
      D_2023_12_31, D_9999_12_15 } \cup MonthBoundStrings

\* strptime of each date string of the model, evaluated once
Parsed == [s \in DateStrings |-> strptime(s)]

Food == <<"F", "o", "o", "d">>
Salary == <<"S", "a", "l", "a", "r", "y">>

Lunch == <<"L", "u", "n", "c", "h">>
Bus == <<"b", "u", "s">>

-----------------------------------------------------------------------------
(* State *)

VARIABLES
    transactions,   \* TransactionService.transactions
    tfile,          \* content of TransactionService.data_file
    budgets,        \* BudgetService.budgets
    bfile,          \* content of BudgetService.data_file
    op,             \* the last call: its name, arguments and return value
    fails,          \* the number of saves that have failed so far
    user_categories,    \* CategoryService.user_categories
    cfile,          \* content of categories.json
    transactions2   \* transactions of a second TransactionService on
                    \* the same data file

vars ==
    <<transactions, tfile, budgets, bfile, op, fails, user_categories, cfile,
      transactions2>>

\* a data file that does not exist
NoFile == [exists |-> FALSE, torn |-> FALSE, data |-> <<>>]

\* a file that open(..., 'w') has truncated and the dump has not finished:
\* its content is no JSON document
TornFile == [exists |-> TRUE, torn |-> TRUE, data |-> <<>>]

Transaction(transaction_id, amount, transaction_type, category, date, note) ==
    [transaction_id |-> transaction_id, amount |-> amount,
     type |-> transaction_type, category |-> category,
     date |-> date, note |-> note]

Transaction_to_dict(t) ==
    [transaction_id |-> t.transaction_id, amount |-> t.amount,
     type |-> t.type, category |-> t.category,
     date |-> t.date, note |-> t.note]

\* the arguments of create_transaction / update_transaction
TxArgs(amount, transaction_type, category, date, note) ==
    [amount |-> amount, type |-> transaction_type, category |-> category,
     date |-> date, note |-> note]

\* outcome of the try block of save_transactions: the dump is written, or
\* open() raises and the file is left as it was, or json.dump raises after
\* open() has truncated the file
SaveOk == "ok"
SaveOpenFails == "open_fails"
SaveDumpFails == "dump_fails"
\* no save was attempted
NoSave == "none"

\* mutant of save_transactions: the newest record is appended to the file
save_transactions_Append(ts, file, sv) ==
    IF sv = SaveOk
    THEN [exists |-> TRUE, torn |-> FALSE,
          data |-> IF Len(ts) = 0 THEN file.data
                   ELSE Append(file.data, Transaction_to_dict(ts[Len(ts)]))]
    ELSE IF sv = SaveDumpFails THEN TornFile
    ELSE file

save_transactions(ts, file, sv) ==
    IF sv = SaveOk
    THEN [exists |-> TRUE, torn |-> FALSE,
          data |-> [i \in 1..Len(ts) |-> Transaction_to_dict(ts[i])]]
    ELSE IF sv = SaveDumpFails THEN TornFile
    ELSE file

\* mutant of TransactionId: the number is not padded
TransactionId_Unpadded(n) == <<"T">> \o StrNat(n)

\* f"T{n:06d}"
TransactionId(n) == <<"T">> \o Format06d(n)

\* position of the first transaction with the id, 0 when there is none
\* (the linear scans of update, delete and get_transaction_by_id)
RECURSIVE ScanFrom(_, _, _)
ScanFrom(ts, id, i) ==
    IF i > Len(ts) THEN 0
    ELSE IF ts[i].transaction_id = id THEN i
    ELSE ScanFrom(ts, id, i + 1)

\* mutant of FirstWithId: the last transaction with the id
LastWithId(ts, id) ==
    IF \E i \in 1..Len(ts) : ts[i].transaction_id = id
    THEN CHOOSE i \in 1..Len(ts) :
           /\ ts[i].transaction_id = id
           /\ \A j \in (i + 1)..Len(ts) : ts[j].transaction_id # id
    ELSE 0

FirstWithId(ts, id) == ScanFrom(ts, id, 1)

\* mutant of DelAt: the last element is removed
DelAt_Last(s, i) == SubSeq(s, 1, Len(s) - 1)

\* del self.transactions[i]
DelAt(s, i) == SubSeq(s, 1, i - 1) \o SubSeq(s, i + 1, Len(s))

Init ==
    /\ transactions = <<>>
    /\ tfile = NoFile
    /\ budgets = <<>>
    /\ bfile = NoFile
    /\ op = [name |-> "init", args |-> <<>>, ret |-> FALSE, res |-> <<>>,
             save |-> NoSave]
    /\ fails = 0
    /\ user_categories = [t \in {INCOME, EXPENSE} |-> <<>>]
    /\ cfile = NoFile
    /\ transactions2 = <<>>

\* the record of a call that does not reach a save
Returned(name, args, ret, res) ==
    /\ op' = [name |-> name, args |-> args, ret |-> ret, res |-> res,
              save |-> NoSave]
    /\ UNCHANGED fails

\* a call of the first TransactionService, of the BudgetService or of the
\* StatisticsService that does not reach a save
Call(name, args, ret, res) ==
    /\ Returned(name, args, ret, res)
    /\ UNCHANGED <<user_categories, cfile, transactions2>>

\* the record of a mutation that returns True after a save with the
\* outcome sv
SaveDone(name, args, sv) ==
    /\ sv # SaveOk => fails < MaxSaveFailures
    /\ op' = [name |-> name, args |-> args, ret |-> TRUE, res |-> <<>>,
              save |-> sv]
    /\ fails' = IF sv = SaveOk THEN fails ELSE fails + 1

\* a mutation that returns True after a save with the outcome sv
Saved(name, args, sv) ==
    /\ SaveDone(name, args, sv)
    /\ UNCHANGED <<user_categories, cfile, transactions2>>

-----------------------------------------------------------------------------
(* TransactionService *)

\* mutant of create_transaction: an amount of zero is accepted
create_transaction_ZeroAmount(a, sv) ==
    /\ UNCHANGED <<budgets, bfile>>
    /\ IF a.amount < 0 \/ ~Parsed[a.date].ok
       THEN /\ UNCHANGED <<transactions, tfile>>
            /\ Call("create_transaction", a, FALSE, <<>>)
       ELSE /\ Len(transactions) < MaxLen
            /\ transactions' =
                 Append(transactions,
                        Transaction(TransactionId(Len(transactions) + 1),
                                    a.amount, a.type, a.category,
                                    a.date, a.note))
            /\ tfile' = save_transactions(transactions', tfile, sv)
            /\ Saved("create_transaction", a, sv)

\* mutant of create_transaction: the id is one more than the largest id
\* number in the store
create_transaction_FreshId(a, sv) ==
    /\ UNCHANGED <<budgets, bfile>>
    /\ IF a.amount <= 0 \/ ~Parsed[a.date].ok
       THEN /\ UNCHANGED <<transactions, tfile>>
            /\ Call("create_transaction", a, FALSE, <<>>)
       ELSE /\ Len(transactions) < MaxLen
            /\ transactions' =
                 Append(transactions,
                        Transaction(
                          TransactionId(
                            1 + Cardinality(
                                  UNION { 1..Num(SubSeq(
                                               transactions[i].transaction_id,
                                               2, 7)) :
                                          i \in 1..Len(transactions) })),
                                    a.amount, a.type, a.category,
                                    a.date, a.note))
            /\ tfile' = save_transactions(transactions', tfile, sv)
            /\ Saved("create_transaction", a, sv)

create_transaction(a, sv) ==
    /\ UNCHANGED <<budgets, bfile>>
    /\ IF a.amount <= 0 \/ ~Parsed[a.date].ok
       THEN /\ UNCHANGED <<transactions, tfile>>
            /\ Call("create_transaction", a, FALSE, <<>>)
       ELSE /\ Len(transactions) < MaxLen
            /\ transactions' =
                 Append(transactions,
                        Transaction(TransactionId(Len(transactions) + 1),
                                    a.amount, a.type, a.category,
                                    a.date, a.note))
            /\ tfile' = save_transactions(transactions', tfile, sv)
            /\ Saved("create_transaction", a, sv)

\* mutant of update_transaction: the date is not validated
update_transaction_NoDateCheck(id, a, sv) ==
    /\ UNCHANGED <<budgets, bfile>>
    /\ LET i == FirstWithId(transactions, id)
       IN  IF a.amount <= 0 \/ i = 0
           THEN /\ UNCHANGED <<transactions, tfile>>
                /\ Call("update_transaction", [id |-> id, a |-> a], FALSE, <<>>)
           ELSE /\ transactions' =
                     [transactions EXCEPT
                        ![i] = Transaction(@.transaction_id, a.amount, a.type,
                                           a.category, a.date, a.note)]
                /\ tfile' = save_transactions(transactions', tfile, sv)
                /\ Saved("update_transaction", [id |-> id, a |-> a], sv)

update_transaction(id, a, sv) ==
    /\ UNCHANGED <<budgets, bfile>>
    /\ LET i == FirstWithId(transactions, id)
       IN  IF a.amount <= 0 \/ ~Parsed[a.date].ok \/ i = 0
           THEN /\ UNCHANGED <<transactions, tfile>>
                /\ Call("update_transaction", [id |-> id, a |-> a], FALSE, <<>>)
           ELSE /\ transactions' =
                     [transactions EXCEPT
                        ![i] = Transaction(@.transaction_id, a.amount, a.type,
                                           a.category, a.date, a.note)]
                /\ tfile' = save_transactions(transactions', tfile, sv)
                /\ Saved("update_transaction", [id |-> id, a |-> a], sv)

delete_transaction(id, sv) ==
    /\ UNCHANGED <<budgets, bfile>>
    /\ LET i == FirstWithId(transactions, id)
       IN  IF i = 0
           THEN /\ UNCHANGED <<transactions, tfile>>
                /\ Call("delete_transaction", [id |-> id], FALSE, <<>>)
           ELSE /\ transactions' = DelAt(transactions, i)
                /\ tfile' = save_transactions(transactions', tfile, sv)
                /\ Saved("delete_transaction", [id |-> id], sv)

\* the result is the reference found, as a list: <<>> is None
get_transaction_by_id(id) ==
    /\ UNCHANGED <<transactions, tfile, budgets, bfile>>
    /\ LET i == FirstWithId(transactions, id)
       IN  Call("get_transaction_by_id", [id |-> id], TRUE,
                IF i = 0 THEN <<>> ELSE <<i>>)

\* mutant of Transaction_from_dict: the note is not read
Transaction_from_dict_NoNote(data) ==
    Transaction(data.transaction_id, data.amount, data.type, data.category,
                data.date, EmptyStr)

Transaction_from_dict(data) ==
    Transaction(data.transaction_id, data.amount, data.type, data.category,
                data.date, data.note)

\* the list load_transactions leaves in a new service
load_transactions(file) ==
    IF file.exists /\ ~file.torn
    THEN [i \in 1..Len(file.data) |-> Transaction_from_dict(file.data[i])]
    ELSE <<>>

\* a new TransactionService is constructed on the same data file and
\* replaces the old one
TransactionService_init ==
    /\ UNCHANGED <<tfile, budgets, bfile>>
    /\ transactions' = load_transactions(tfile)
    /\ Call("TransactionService_init", <<>>, TRUE, <<>>)

\* a second TransactionService object on the same data file is constructed
Second_TransactionService_init ==
    /\ UNCHANGED <<transactions, tfile, budgets, bfile>>
    /\ UNCHANGED <<user_categories, cfile>>
    /\ transactions2' = load_transactions(tfile)
    /\ Returned("second.TransactionService_init", <<>>, TRUE, <<>>)

\* create_transaction called on the second object
Second_create_transaction(a, sv) ==
    /\ UNCHANGED <<transactions, budgets, bfile, user_categories, cfile>>
    /\ IF a.amount <= 0 \/ ~Parsed[a.date].ok
       THEN /\ UNCHANGED <<transactions2, tfile>>
            /\ Returned("second.create_transaction", a, FALSE, <<>>)
       ELSE /\ Len(transactions2) < MaxLen
            /\ transactions2' =
                 Append(transactions2,
                        Transaction(TransactionId(Len(transactions2) + 1),
                                    a.amount, a.type, a.category,
                                    a.date, a.note))
            /\ tfile' = save_transactions(transactions2', tfile, sv)
            /\ SaveDone("second.create_transaction", a, sv)

\* the loop of get_transactions_by_date_range from position i on; the
\* result lists the references appended, in the order of the appends
RECURSIVE DateRangeLoop(_, _, _, _)
DateRangeLoop(ts, start, end, i) ==
    IF i > Len(ts) THEN <<>>
    ELSE LET trans_date == Parsed[ts[i].date]
         IN  IF DatetimeLE(start, trans_date) /\ DatetimeLE(trans_date, end)
             THEN <<i>> \o DateRangeLoop(ts, start, end, i + 1)
             ELSE DateRangeLoop(ts, start, end, i + 1)

TransactionsByDateRange(ts, start_date, end_date) ==
    IF ~Parsed[start_date].ok \/ ~Parsed[end_date].ok
       \/ \E i \in 1..Len(ts) : ~Parsed[ts[i].date].ok
    THEN <<>>
    ELSE DateRangeLoop(ts, Parsed[start_date], Parsed[end_date], 1)

get_transactions_by_date_range(start_date, end_date) ==
    /\ UNCHANGED <<transactions, tfile, budgets, bfile>>
    /\ Call("get_transactions_by_date_range",
            [start_date |-> start_date, end_date |-> end_date], TRUE,
            TransactionsByDateRange(transactions, start_date, end_date))

\* str.split(sep): the pieces of s between the occurrences of sep
RECURSIVE Split(_, _)
Split(s, sep) ==
    IF \E i \in 1..Len(s) : s[i] = sep
    THEN LET i == CHOOSE k \in 1..Len(s) :
                    s[k] = sep /\ \A j \in 1..(k - 1) : s[j] # sep
         IN  <<SubSeq(s, 1, i - 1)>> \o Split(SubSeq(s, i + 1, Len(s)), sep)
    ELSE <<s>>

\* int(s) succeeds; the strings of the model hold no sign, blank or
\* underscore
IntOk(s) == Len(s) > 0 /\ IsDigits(s)

\* datetime(year, month, day) succeeds
DatetimeOk(year, month, day) ==
    /\ 1 <= year /\ year <= 9999
    /\ 1 <= month /\ month <= 12
    /\ 1 <= day /\ day <= DaysInMonth(year, month)

\* datetime(year, month, day) - timedelta(days=1), for a date after
\* 0001-01-01
DayBefore(year, month, day) ==
    IF day > 1 THEN [y |-> year, m |-> month, d |-> day - 1]
    ELSE IF month > 1
         THEN [y |-> year, m |-> month - 1,
               d |-> DaysInMonth(year, month - 1)]
         ELSE [y |-> year - 1, m |-> 12, d |-> 31]

\* strftime("%Y-%m-%d") of a date of a year of four digits
Strftime(year, month, day) ==
    StrNat(year) \o <<"-">> \o ZeroPad(StrNat(month), 2)
      \o <<"-">> \o ZeroPad(StrNat(day), 2)

\* end_date of get_transactions_by_month, ok FALSE for the ValueError of
\* datetime()
MonthEndDate(year, month_num) ==
    IF month_num = 12
    THEN IF DatetimeOk(year + 1, 1, 1)
         THEN [ok |-> TRUE] @@ DayBefore(year + 1, 1, 1)
         ELSE ValueError
    ELSE IF DatetimeOk(year, month_num + 1, 1)
         THEN [ok |-> TRUE] @@ DayBefore(year, month_num + 1, 1)
         ELSE ValueError

TransactionsByMonth(ts, month) ==
    LET parts == Split(month, "-")
    IN  IF Len(parts) # 2 \/ ~IntOk(parts[1]) \/ ~IntOk(parts[2])
        THEN <<>>
        ELSE LET year == Num(parts[1])
                 month_num == Num(parts[2])
             IN  IF ~DatetimeOk(year, month_num, 1)
                 THEN <<>>
                 ELSE LET end_date == MonthEndDate(year, month_num)
                      IN  IF ~end_date.ok
                          THEN <<>>
                          ELSE TransactionsByDateRange(ts,
                                 Strftime(year, month_num, 1),
                                 Strftime(end_date.y, end_date.m,
                                          end_date.d))

get_transactions_by_month(month) ==
    /\ UNCHANGED <<transactions, tfile, budgets, bfile>>
    /\ Call("get_transactions_by_month", [month |-> month], TRUE,
            TransactionsByMonth(transactions, month))

\* the references 1..Len(ts), i.e. the list self.transactions itself
AllRefs(ts) == [i \in 1..Len(ts) |-> i]

\* the arguments of search_transactions; "" (the empty string, or the empty
\* type) and None (an amount given as the empty list) are the defaults
SearchArgs(keyword, type, category, start_date, end_date, min_amount, max_amount) ==
    [keyword |-> keyword, type |-> type, category |-> category,
     start_date |-> start_date, end_date |-> end_date,
     min_amount |-> min_amount, max_amount |-> max_amount]

NoType == ""
NoAmount == <<>>

KeywordMatches(t, keyword) ==
    \/ Contains(Lower(t.note), Lower(keyword))
    \/ Contains(Lower(t.category), Lower(keyword))
    \/ Contains(StrInt(t.amount), keyword)

ByKeyword(ts, results, keyword) ==
    IF keyword # EmptyStr
    THEN SelectSeq(results, LAMBDA i : KeywordMatches(ts[i], keyword))
    ELSE results

ByType(ts, results, transaction_type) ==
    IF transaction_type # NoType
    THEN SelectSeq(results, LAMBDA i : ts[i].type = transaction_type)
    ELSE results

\* mutant of ByCategory: the filter starts again from the whole list
ByCategory_FromAll(ts, results, category) ==
    IF category # EmptyStr
    THEN SelectSeq(AllRefs(ts), LAMBDA i : ts[i].category = category)
    ELSE results

ByCategory(ts, results, category) ==
    IF category # EmptyStr
    THEN SelectSeq(results, LAMBDA i : ts[i].category = category)
    ELSE results

\* a ValueError of any strptime call leaves results as they were (pass)
\* mutant of ByDates: one bound alone filters too
ByDates_OneBound(ts, results, start_date, end_date) ==
    IF start_date # EmptyStr \/ end_date # EmptyStr
    THEN SelectSeq(results,
           LAMBDA i :
             /\ start_date # EmptyStr =>
                  DatetimeLE(Parsed[start_date], Parsed[ts[i].date])
             /\ end_date # EmptyStr =>
                  DatetimeLE(Parsed[ts[i].date], Parsed[end_date]))
    ELSE results

ByDates(ts, results, start_date, end_date) ==
    IF start_date # EmptyStr /\ end_date # EmptyStr
    THEN IF \/ ~Parsed[start_date].ok
            \/ ~Parsed[end_date].ok
            \/ \E k \in 1..Len(results) : ~Parsed[ts[results[k]].date].ok
         THEN results
         ELSE SelectSeq(results,
                LAMBDA i : /\ DatetimeLE(Parsed[start_date],
                                         Parsed[ts[i].date])
                           /\ DatetimeLE(Parsed[ts[i].date],
                                         Parsed[end_date]))
    ELSE results

\* mutant of ByMinAmount: the bound is excluded
ByMinAmount_Strict(ts, results, min_amount) ==
    IF min_amount # NoAmount
    THEN SelectSeq(results, LAMBDA i : ts[i].amount > min_amount[1])
    ELSE results

ByMinAmount(ts, results, min_amount) ==
    IF min_amount # NoAmount
    THEN SelectSeq(results, LAMBDA i : ts[i].amount >= min_amount[1])
    ELSE results

ByMaxAmount(ts, results, max_amount) ==
    IF max_amount # NoAmount
    THEN SelectSeq(results, LAMBDA i : ts[i].amount <= max_amount[1])
    ELSE results

SearchTransactions(ts, f) ==
    ByMaxAmount(ts,
      ByMinAmount(ts,
        ByDates(ts,
          ByCategory(ts,
            ByType(ts,
              ByKeyword(ts, AllRefs(ts), f.keyword),
              f.type),
            f.category),
          f.start_date, f.end_date),
        f.min_amount),
      f.max_amount)

search_transactions(f) ==
    /\ UNCHANGED <<transactions, tfile, budgets, bfile>>
    /\ Call("search_transactions", f, TRUE,
            SearchTransactions(transactions, f))

-----------------------------------------------------------------------------
(* BudgetService *)

M_2024_01 == <<"2", "0", "2", "4", "-", "0", "1">>
M_2024_02 == <<"2", "0", "2", "4", "-", "0", "2">>

Budget(budget_id, category, amount, month, note) ==
    [budget_id |-> budget_id, category |-> category, amount |-> amount,
     month |-> month, note |-> note]

Budget_to_dict(b) ==
    [budget_id |-> b.budget_id, category |-> b.category,
     amount |-> b.amount, month |-> b.month, note |-> b.note]

\* the arguments of create_budget
BudgetArgs(category, amount, month, note) ==
    [category |-> category, amount |-> amount, month |-> month,
     note |-> note]

save_budgets(bs, file, sv) ==
    IF sv = SaveOk
    THEN [exists |-> TRUE, torn |-> FALSE,
          data |-> [i \in 1..Len(bs) |-> Budget_to_dict(bs[i])]]
    ELSE IF sv = SaveDumpFails THEN TornFile
    ELSE file

\* f"B{n:06d}"
BudgetId(n) == <<"B">> \o Format06d(n)

RECURSIVE ScanBudgetsFrom(_, _, _)
ScanBudgetsFrom(bs, id, i) ==
    IF i > Len(bs) THEN 0
    ELSE IF bs[i].budget_id = id THEN i
    ELSE ScanBudgetsFrom(bs, id, i + 1)

FirstBudgetWithId(bs, id) == ScanBudgetsFrom(bs, id, 1)

\* mutant of BudgetExists: only the first budget is compared
BudgetExists_FirstOnly(bs, category, month) ==
    Len(bs) > 0 /\ bs[1].category = category /\ bs[1].month = month

\* the scan of create_budget for a budget of the category and month
BudgetExists(bs, category, month) ==
    \E i \in 1..Len(bs) : bs[i].category = category /\ bs[i].month = month

\* the budgets of a month, as references into bs in list order
BudgetsByMonth(bs, month) ==
    SelectSeq([i \in 1..Len(bs) |-> i], LAMBDA i : bs[i].month = month)

create_budget(a, sv) ==
    /\ UNCHANGED <<transactions, tfile>>
    /\ IF a.amount <= 0 \/ BudgetExists(budgets, a.category, a.month)
       THEN /\ UNCHANGED <<budgets, bfile>>
            /\ Call("create_budget", a, FALSE, <<>>)
       ELSE /\ Len(budgets) < MaxBudgets
            /\ budgets' =
                 Append(budgets,
                        Budget(BudgetId(Len(budgets) + 1), a.category,
                               a.amount, a.month, a.note))
            /\ bfile' = save_budgets(budgets', bfile, sv)
            /\ Saved("create_budget", a, sv)

\* mutant of update_budget: a month that another budget of the category
\* has is turned down
update_budget_Rechecks(id, amount, month, note, sv) ==
    /\ UNCHANGED <<transactions, tfile>>
    /\ LET i == FirstBudgetWithId(budgets, id)
           a == [id |-> id, amount |-> amount, month |-> month, note |-> note]
       IN  IF i = 0
           THEN /\ UNCHANGED <<budgets, bfile>>
                /\ Call("update_budget", a, FALSE, <<>>)
           ELSE IF \E k \in 1..Len(budgets) :
                      /\ k # i
                      /\ budgets[k].category = budgets[i].category
                      /\ budgets[k].month = month
           THEN /\ UNCHANGED <<budgets, bfile>>
                /\ Call("update_budget", a, FALSE, <<>>)
           ELSE /\ budgets' =
                     [budgets EXCEPT
                        ![i] = Budget(@.budget_id, @.category, amount,
                                      month, note)]
                /\ bfile' = save_budgets(budgets', bfile, sv)
                /\ Saved("update_budget", a, sv)

update_budget(id, amount, month, note, sv) ==
    /\ UNCHANGED <<transactions, tfile>>
    /\ LET i == FirstBudgetWithId(budgets, id)
           a == [id |-> id, amount |-> amount, month |-> month, note |-> note]
       IN  IF i = 0
           THEN /\ UNCHANGED <<budgets, bfile>>
                /\ Call("update_budget", a, FALSE, <<>>)
           ELSE /\ budgets' =
                     [budgets EXCEPT
                        ![i] = Budget(@.budget_id, @.category, amount,
                                      month, note)]
                /\ bfile' = save_budgets(budgets', bfile, sv)
                /\ Saved("update_budget", a, sv)

delete_budget(id, sv) ==
    /\ UNCHANGED <<transactions, tfile>>
    /\ LET i == FirstBudgetWithId(budgets, id)
       IN  IF i = 0
           THEN /\ UNCHANGED <<budgets, bfile>>
                /\ Call("delete_budget", [id |-> id], FALSE, <<>>)
           ELSE /\ budgets' = DelAt(budgets, i)
                /\ bfile' = save_budgets(budgets', bfile, sv)
                /\ Saved("delete_budget", [id |-> id], sv)

-----------------------------------------------------------------------------
(* StatisticsService *)

\* mutant of SumAmounts: the type is not compared
RECURSIVE SumAmounts_AnyType(_, _, _, _)
SumAmounts_AnyType(ts, refs, type, k) ==
    IF k > Len(refs) THEN 0
    ELSE ts[refs[k]].amount + SumAmounts_AnyType(ts, refs, type, k + 1)

\* sum(t.amount for t in transactions if t.type == type), from the k-th on
RECURSIVE SumAmounts(_, _, _, _)
SumAmounts(ts, refs, type, k) ==
    IF k > Len(refs) THEN 0
    ELSE (IF ts[refs[k]].type = type THEN ts[refs[k]].amount ELSE 0)
           + SumAmounts(ts, refs, type, k + 1)

TotalIncome(ts, start_date, end_date) ==
    SumAmounts(ts, TransactionsByDateRange(ts, start_date, end_date),
               INCOME, 1)

TotalExpense(ts, start_date, end_date) ==
    SumAmounts(ts, TransactionsByDateRange(ts, start_date, end_date),
               EXPENSE, 1)

calculate_total_income(start_date, end_date) ==
    /\ UNCHANGED <<transactions, tfile, budgets, bfile>>
    /\ Call("calculate_total_income",
            [start_date |-> start_date, end_date |-> end_date], TRUE,
            TotalIncome(transactions, start_date, end_date))

calculate_total_expense(start_date, end_date) ==
    /\ UNCHANGED <<transactions, tfile, budgets, bfile>>
    /\ Call("calculate_total_expense",
            [start_date |-> start_date, end_date |-> end_date], TRUE,
            TotalExpense(transactions, start_date, end_date))

calculate_net_balance(start_date, end_date) ==
    /\ UNCHANGED <<transactions, tfile, budgets, bfile>>
    /\ Call("calculate_net_balance",
            [start_date |-> start_date, end_date |-> end_date], TRUE,
            TotalIncome(transactions, start_date, end_date)
              - TotalExpense(transactions, start_date, end_date))

\* sum(t.amount for t in transactions if t.type == EXPENSE and
\* t.category == category), from the k-th on
RECURSIVE ExpenseOfCategory(_, _, _, _)
ExpenseOfCategory(ts, refs, category, k) ==
    IF k > Len(refs) THEN 0
    ELSE (IF ts[refs[k]].type = EXPENSE /\ ts[refs[k]].category = category
          THEN ts[refs[k]].amount ELSE 0)
           + ExpenseOfCategory(ts, refs, category, k + 1)

\* the entry of one budget; the budget amounts of the model are 1, 2 or not
\* positive, so the quotient actual_expense / amount * 100 is a whole number
AnalysisEntry(budget, actual_expense) ==
    [budget_amount |-> budget.amount,
     actual_expense |-> actual_expense,
     remaining |-> budget.amount - actual_expense,
     usage_rate |-> IF budget.amount > 0
                    THEN (actual_expense * 100) \div budget.amount
                    ELSE 0,
     is_over_budget |-> actual_expense > budget.amount]

\* the loop over the budgets of the month: analysis[budget.category] = ...
\* from the k-th budget on; a dict is a function on its keys
RECURSIVE AnalysisLoop(_, _, _, _, _, _)
AnalysisLoop(ts, refs, bs, brefs, k, analysis) ==
    IF k > Len(brefs) THEN analysis
    ELSE LET budget == bs[brefs[k]]
             entry == AnalysisEntry(budget,
                        ExpenseOfCategory(ts, refs, budget.category, 1))
         IN  AnalysisLoop(ts, refs, bs, brefs, k + 1,
               [c \in (DOMAIN analysis) \cup {budget.category} |->
                  IF c = budget.category THEN entry ELSE analysis[c]])

BudgetAnalysis(ts, bs, month) ==
    AnalysisLoop(ts, TransactionsByMonth(ts, month), bs,
                 BudgetsByMonth(bs, month), 1, [c \in {} |-> 0])

get_budget_analysis(month) ==
    /\ UNCHANGED <<transactions, tfile, budgets, bfile>>
    /\ Call("get_budget_analysis", [month |-> month], TRUE,
            BudgetAnalysis(transactions, budgets, month))

\* len([t for t in transactions if t.type == type]), from the k-th on
RECURSIVE CountOfType(_, _, _, _)
CountOfType(ts, refs, type, k) ==
    IF k > Len(refs) THEN 0
    ELSE (IF ts[refs[k]].type = type THEN 1 ELSE 0)
           + CountOfType(ts, refs, type, k + 1)

\* the dict returned: its keys are the two type literals and the literal
\* for the total
TransactionCountByType(ts, start_date, end_date) ==
    LET refs == TransactionsByDateRange(ts, start_date, end_date)
    IN  [income |-> CountOfType(ts, refs, INCOME, 1),
         expense |-> CountOfType(ts, refs, EXPENSE, 1),
         total |-> Len(refs)]

get_transaction_count_by_type(start_date, end_date) ==
    /\ UNCHANGED <<transactions, tfile, budgets, bfile>>
    /\ Call("get_transaction_count_by_type",
            [start_date |-> start_date, end_date |-> end_date], TRUE,
            TransactionCountByType(transactions, start_date, end_date))

-----------------------------------------------------------------------------
(* MainScreen *)

\* ord() of the characters of the date strings of the model
CharCode(c) ==
    CASE c = " " -> 32 [] c = "-" -> 45 [] c = "/" -> 47
      [] OTHER -> 48 + DigitVal(c)

\* the Python operator a < b on strings
RECURSIVE StrLT(_, _)
StrLT(a, b) ==
    IF Len(b) = 0 THEN FALSE
    ELSE IF Len(a) = 0 THEN TRUE
    ELSE IF a[1] = b[1] THEN StrLT(Tail(a), Tail(b))
    ELSE CharCode(a[1]) < CharCode(b[1])

\* t put into a list sorted by date, largest first, behind the elements
\* whose date is not smaller: the sort is stable
RECURSIVE InsertByDateDesc(_, _)
InsertByDateDesc(sorted, t) ==
    IF sorted = <<>> THEN <<t>>
    ELSE IF StrLT(Head(sorted).date, t.date)
         THEN <<t>> \o sorted
         ELSE <<Head(sorted)>> \o InsertByDateDesc(Tail(sorted), t)

\* list.sort(key=lambda x: x.date, reverse=True), from the k-th element on
RECURSIVE SortByDateDesc(_, _, _)
SortByDateDesc(ts, k, sorted) ==
    IF k > Len(ts) THEN sorted
    ELSE SortByDateDesc(ts, k + 1, InsertByDateDesc(sorted, ts[k]))

get_all_transactions ==
    /\ UNCHANGED <<transactions, tfile, budgets, bfile>>
    /\ Call("get_all_transactions", <<>>, TRUE, AllRefs(transactions))

\* the totals of the summary are read; the list that
\* get_all_transactions returns, self.transactions itself, is sorted in
\* place
MainScreen_refresh_data ==
    /\ UNCHANGED <<tfile, budgets, bfile>>
    /\ transactions' = SortByDateDesc(transactions, 1, <<>>)
    /\ Call("MainScreen_refresh_data", <<>>, TRUE, <<>>)

-----------------------------------------------------------------------------
(* CategoryService (the category names are Chinese in the source)          *)

Bonus == <<"B", "o", "n", "u", "s">>
Invest == <<"I", "n", "v", "e", "s", "t">>
OtherIncome == <<"O", "t", "h", "e", "r", "I", "n">>
Transit == <<"T", "r", "a", "n", "s", "i", "t">>
Shopping == <<"S", "h", "o", "p">>
Fun == <<"F", "u", "n">>
Housing == <<"H", "o", "u", "s", "e">>
Medical == <<"M", "e", "d">>
Education == <<"E", "d", "u">>
OtherExpense == <<"O", "t", "h", "e", "r", "O", "u", "t">>

default_categories ==
    [t \in {INCOME, EXPENSE} |->
       IF t = INCOME
       THEN <<Salary, Bonus, Invest, OtherIncome>>
       ELSE <<Food, Transit, Shopping, Fun, Housing, Medical, Education,
              OtherExpense>>]

\* the Python operator `x in list`
InList(x, list) == \E i \in 1..Len(list) : list[i] = x

\* dict.get(transaction_type, []) of both dicts, concatenated
CategoriesByType(uc, transaction_type) ==
    (IF transaction_type \in DOMAIN default_categories
     THEN default_categories[transaction_type] ELSE <<>>)
      \o (IF transaction_type \in DOMAIN uc
          THEN uc[transaction_type] ELSE <<>>)

get_categories_by_type(transaction_type) ==
    /\ UNCHANGED <<transactions, tfile, budgets, bfile, transactions2>>
    /\ UNCHANGED <<user_categories, cfile>>
    /\ Returned("get_categories_by_type", [type |-> transaction_type], TRUE,
                CategoriesByType(user_categories, transaction_type))

save_categories(uc, file, sv) ==
    IF sv = SaveOk
    THEN [exists |-> TRUE, torn |-> FALSE, data |-> uc]
    ELSE IF sv = SaveDumpFails THEN TornFile
    ELSE file

\* transaction_type is one of the two literals: any other key raises
\* KeyError in the index of user_categories
add_user_category(transaction_type, category, sv) ==
    /\ UNCHANGED <<transactions, tfile, budgets, bfile, transactions2>>
    /\ LET a == [type |-> transaction_type, category |-> category]
       IN  IF /\ category # EmptyStr
              /\ ~InList(category, user_categories[transaction_type])
           THEN /\ user_categories' =
                     [user_categories EXCEPT
                        ![transaction_type] = Append(@, category)]
                /\ cfile' = save_categories(user_categories', cfile, sv)
                /\ SaveDone("add_user_category", a, sv)
           ELSE /\ UNCHANGED <<user_categories, cfile>>
                /\ Returned("add_user_category", a, FALSE, <<>>)

-----------------------------------------------------------------------------
(* Inputs *)

Tx1 == TxArgs(2, INCOME, Salary, D_2024_01_05, EmptyStr)
Tx2 == TxArgs(1, EXPENSE, Food, D_2024_1_20, Lunch)
Tx3 == TxArgs(2, EXPENSE, Food, D_2024_02_10, Bus)

InvalidTx ==
    { TxArgs(0, EXPENSE, Food, D_2024_01_05, Lunch),
      TxArgs(-1, INCOME, Salary, D_2024_1_20, EmptyStr),
      TxArgs(1, EXPENSE, Food, D_2024_02_30, Bus),
      TxArgs(2, INCOME, Salary, D_2024s01s05, EmptyStr) }

\* arguments of create_transaction and update_transaction
TxInputs == {Tx1, Tx2} \cup InvalidTx

\* arguments of create_transaction in the specifications of the queries
QueryTxInputs == {Tx1, Tx2, Tx3}

\* the ids a store of at most MaxLen transactions can hand out
TxIds == { TransactionId(n) : n \in 1..MaxLen }

DateInputs ==
    { D_2024_01_05, D_2024_1_20, D_2024_02_10, D_2024_02_30, D_2024s01s05 }

BudgetInputs ==
    { BudgetArgs(Food, 2, M_2024_01, EmptyStr),
      BudgetArgs(Food, 1, M_2024_02, Lunch),
      BudgetArgs(Salary, 1, M_2024_01, EmptyStr),
      BudgetArgs(Food, 0, M_2024_02, EmptyStr) }

\* amount, month and note of update_budget
BudgetUpdates ==
    { <<2, M_2024_01, EmptyStr>>, <<1, M_2024_02, Lunch>>,
      <<0, M_2024_02, EmptyStr>> }

BudgetIds == { BudgetId(n) : n \in 1..MaxBudgets }

\* the saves of these specifications succeed
SaveOutcomes == {SaveOk}

-----------------------------------------------------------------------------
(* Specifications *)

\* the transaction store: mutations and lookup by id
Next ==
    \/ \E a \in TxInputs, sv \in SaveOutcomes : create_transaction(a, sv)
    \/ \E id \in TxIds, a \in TxInputs, sv \in SaveOutcomes :
          update_transaction(id, a, sv)
    \/ \E id \in TxIds, sv \in SaveOutcomes : delete_transaction(id, sv)
    \/ \E id \in TxIds : get_transaction_by_id(id)

Spec == Init /\ [][Next]_vars

\* the transaction store queried by date range
NextRange ==
    \/ \E a \in QueryTxInputs, sv \in SaveOutcomes : create_transaction(a, sv)
    \/ \E id \in TxIds, sv \in SaveOutcomes : delete_transaction(id, sv)
    \/ \E a \in DateInputs, b \in DateInputs :
          get_transactions_by_date_range(a, b)

SpecRange == Init /\ [][NextRange]_vars

\* the budget store
NextBudget ==
    \/ \E a \in BudgetInputs, sv \in SaveOutcomes : create_budget(a, sv)
    \/ \E id \in BudgetIds, u \in BudgetUpdates, sv \in SaveOutcomes :
          update_budget(id, u[1], u[2], u[3], sv)
    \/ \E id \in BudgetIds, sv \in SaveOutcomes : delete_budget(id, sv)

SpecBudget == Init /\ [][NextBudget]_vars

\* arguments of search_transactions: every combination of the six filters
\* given or left out, and some calls with other keywords and date bounds
SearchInputs ==
    { SearchArgs(k, t, c, d[1], d[2], lo, hi) :
        k \in {EmptyStr, <<"L">>}, t \in {NoType, EXPENSE},
        c \in {EmptyStr, Food},
        d \in {<<EmptyStr, EmptyStr>>, <<D_2024_01_05, D_2024_1_20>>},
        lo \in {NoAmount, <<2>>}, hi \in {NoAmount, <<1>>} }
    \cup
    { SearchArgs(<<"2">>, EXPENSE, EmptyStr, EmptyStr, EmptyStr,
                 NoAmount, NoAmount),
      SearchArgs(<<"u">>, NoType, Food, D_2024_1_20, D_2024_02_10,
                 <<1>>, <<2>>),
      SearchArgs(EmptyStr, EXPENSE, EmptyStr, D_2024_02_30, D_2024_02_10,
                 NoAmount, NoAmount),
      SearchArgs(EmptyStr, NoType, Food, D_2024_1_20, EmptyStr,
                 NoAmount, <<1>>),
      SearchArgs(EmptyStr, NoType, Food, EmptyStr, D_2024_01_05,
                 NoAmount, NoAmount),
      SearchArgs(EmptyStr, NoType, EmptyStr, EmptyStr, EmptyStr,
                 <<2>>, <<2>>) }

\* the transaction store searched
NextSearch ==
    \/ \E a \in QueryTxInputs, sv \in SaveOutcomes : create_transaction(a, sv)
    \/ \E f \in SearchInputs : search_transactions(f)

SpecSearch == Init /\ [][NextSearch]_vars

\* start and end dates of the totals: three ranges, one the wrong way
\* round, one with a start that is no date
StatRanges ==
    { <<D_2024_01_05, D_2024_1_20>>, <<D_2024_1_20, D_2024_02_10>>,
      <<D_2024_01_05, D_2024_02_10>>, <<D_2024_02_10, D_2024_01_05>>,
      <<D_2024_02_30, D_2024_02_10>> }

\* the transaction store and its totals
NextStats ==
    \/ \E a \in QueryTxInputs, sv \in SaveOutcomes : create_transaction(a, sv)
    \/ \E id \in TxIds, sv \in SaveOutcomes : update_transaction(id, Tx1, sv)
    \/ \E id \in TxIds, sv \in SaveOutcomes : delete_transaction(id, sv)
    \/ \E r \in StatRanges : calculate_total_income(r[1], r[2])
    \/ \E r \in StatRanges : calculate_total_expense(r[1], r[2])
    \/ \E r \in StatRanges : calculate_net_balance(r[1], r[2])

SpecStats == Init /\ [][NextStats]_vars

TxDec == TxArgs(1, EXPENSE, Food, D_2023_12_31, EmptyStr)
Tx9999 == TxArgs(2, INCOME, Salary, D_9999_12_15, EmptyStr)

\* months asked of get_transactions_by_month: January written with and
\* without zero, the February of a leap year, two Decembers, a thirteenth
\* month and a year alone
MonthInputs ==
    { M_2024_01, <<"2", "0", "2", "4", "-", "1">>, M_2024_02,
      <<"2", "0", "2", "3", "-", "1", "2">>,
      <<"9", "9", "9", "9", "-", "1", "2">>,
      <<"2", "0", "2", "4", "-", "1", "3">>,
      <<"2", "0", "2", "4">> }

\* the transaction store queried by month
NextMonth ==
    \/ \E a \in {Tx2, Tx3, TxDec, Tx9999}, sv \in SaveOutcomes :
          create_transaction(a, sv)
    \/ \E id \in TxIds, sv \in SaveOutcomes : delete_transaction(id, sv)
    \/ \E m \in MonthInputs : get_transactions_by_month(m)

SpecMonth == Init /\ [][NextMonth]_vars

\* an expense of the category written in lower case
food == <<"f", "o", "o", "d">>
TxLower == TxArgs(1, EXPENSE, food, D_2024_01_05, Bus)

\* amount, month and note of update_budget in the analysis
AnalysisUpdates ==
    { <<1, M_2024_01, EmptyStr>>, <<-1, M_2024_02, EmptyStr>> }

AnalysisBudgets ==
    { BudgetArgs(Food, 2, M_2024_01, EmptyStr),
      BudgetArgs(Food, 1, M_2024_02, Lunch) }

\* both stores and the budget analysis
NextAnalysis ==
    \/ \E a \in {Tx2, Tx3, TxLower}, sv \in SaveOutcomes :
          create_transaction(a, sv)
    \/ \E a \in AnalysisBudgets, sv \in SaveOutcomes : create_budget(a, sv)
    \/ \E id \in BudgetIds, u \in AnalysisUpdates, sv \in SaveOutcomes :
          update_budget(id, u[1], u[2], u[3], sv)
    \/ \E m \in {M_2024_01, M_2024_02} : get_budget_analysis(m)

SpecAnalysis == Init /\ [][NextAnalysis]_vars

\* a transaction_type that is neither literal of TransactionType: the
\* parameter is a str that no method compares with the two literals
OtherType == "other"
TxOther == TxArgs(1, OtherType, Food, D_2024_1_20, EmptyStr)

\* the transaction store and its counts
NextCount ==
    \/ \E a \in {Tx1, Tx2, TxOther}, sv \in SaveOutcomes :
          create_transaction(a, sv)
    \/ \E id \in TxIds, a \in {Tx1, TxOther}, sv \in SaveOutcomes :
          update_transaction(id, a, sv)
    \/ \E r \in StatRanges : get_transaction_count_by_type(r[1], r[2])

SpecCount == Init /\ [][NextCount]_vars

\* the transaction store read by the main screen
NextDisplay ==
    \/ \E a \in QueryTxInputs, sv \in SaveOutcomes : create_transaction(a, sv)
    \/ \E id \in TxIds, sv \in SaveOutcomes : delete_transaction(id, sv)
    \/ \E id \in TxIds : get_transaction_by_id(id)
    \/ get_all_transactions
    \/ MainScreen_refresh_data

SpecDisplay == Init /\ [][NextDisplay]_vars

Pets == <<"P", "e", "t", "s">>

\* names given to add_user_category: the empty name, two new names, a
\* default name of each type
CategoryInputs == {EmptyStr, Pets, Bus, Food, Salary}

\* the category registry
NextCategory ==
    \/ \E t \in {INCOME, EXPENSE}, c \in CategoryInputs, sv \in SaveOutcomes :
          add_user_category(t, c, sv)
    \/ \E t \in {INCOME, EXPENSE} : get_categories_by_type(t)

SpecCategory == Init /\ [][NextCategory]_vars

\* two TransactionService objects on one data file
NextTwo ==
    \/ \E a \in {Tx1, Tx2}, sv \in SaveOutcomes : create_transaction(a, sv)
    \/ \E sv \in SaveOutcomes : delete_transaction(TransactionId(1), sv)
    \/ Second_TransactionService_init
    \/ \E sv \in SaveOutcomes : Second_create_transaction(Tx3, sv)

SpecTwo == Init /\ [][NextTwo]_vars

\* the outcomes of a save
AnySave == {SaveOk, SaveOpenFails, SaveDumpFails}

\* the two services are separate objects on separate files: a behaviour of
\* SpecSave drives one of them and leaves the other as constructed
TransactionsOnly == budgets = <<>> /\ bfile = NoFile
BudgetsOnly == transactions = <<>> /\ tfile = NoFile

SaveBudgetInputs ==
    { BudgetArgs(Food, 2, M_2024_01, EmptyStr),
      BudgetArgs(Food, 1, M_2024_02, Lunch) }

\* either store with saves that can fail, and the restart of the
\* transaction service
NextSave ==
    \/ \E a \in {Tx1, Tx2}, sv \in AnySave :
          TransactionsOnly /\ create_transaction(a, sv)
    \/ \E id \in TxIds, sv \in AnySave :
          TransactionsOnly /\ update_transaction(id, Tx2, sv)
    \/ \E id \in TxIds, sv \in AnySave :
          TransactionsOnly /\ delete_transaction(id, sv)
    \/ TransactionsOnly /\ TransactionService_init
    \/ \E a \in SaveBudgetInputs, sv \in AnySave :
          BudgetsOnly /\ create_budget(a, sv)
    \/ \E id \in BudgetIds, sv \in AnySave :
          BudgetsOnly /\ update_budget(id, 1, M_2024_02, Lunch, sv)
    \/ \E id \in BudgetIds, sv \in AnySave :
          BudgetsOnly /\ delete_budget(id, sv)

SpecSave == Init /\ [][NextSave]_vars

-----------------------------------------------------------------------------
(* The calendar, stated apart from the parser *)

CalendarYears == (2023..2025) \cup {9999}

Pad2(n) == IF n < 10 THEN <<"0", DigitChar(n)>> ELSE StrNat(n)

\* the ways of writing the day d of month m of year y as year-month-day,
\* month and day with or without a leading zero
Writings(y, m, d) ==
    { StrNat(y) \o <<"-">> \o ms \o <<"-">> \o ds :
        ms \in {StrNat(m), Pad2(m)}, ds \in {StrNat(d), Pad2(d)} }

CalendarDays ==
    { ymd \in CalendarYears \X (1..12) \X (1..31) :
        ymd[3] <= DaysInMonth(ymd[1], ymd[2]) }

\* the calendar day a date string of the model names, <<0, 0, 0>> if none
DayOf ==
    [s \in DateStrings |->
       IF \E ymd \in CalendarDays : s \in Writings(ymd[1], ymd[2], ymd[3])
       THEN CHOOSE ymd \in CalendarDays :
              s \in Writings(ymd[1], ymd[2], ymd[3])
       ELSE <<0, 0, 0>>]

IsCalendarDate(s) == DayOf[s] # <<0, 0, 0>>

\* a number that grows with the calendar
DayNumber(s) == (DayOf[s][1] * 12 + DayOf[s][2]) * 31 + DayOf[s][3]

Range(s) == { s[i] : i \in 1..Len(s) }

Increasing(s) == \A i, j \in 1..Len(s) : i < j => s[i] < s[j]

HoldsId(ts, id) == \E i \in 1..Len(ts) : ts[i].transaction_id = id

SameFields(t, a) ==
    /\ t.amount = a.amount
    /\ t.type = a.type
    /\ t.category = a.category
    /\ t.date = a.date
    /\ t.note = a.note

-----------------------------------------------------------------------------
(* Claims *)

\* C1: in every reachable state no two transactions have the same
\* transaction_id and no two budgets have the same budget_id.
C1_UniqueIds ==
    /\ \A i, j \in 1..Len(transactions) :
          i # j => transactions[i].transaction_id # transactions[j].transaction_id
    /\ \A i, j \in 1..Len(budgets) :
          i # j => budgets[i].budget_id # budgets[j].budget_id

\* C2: in every reachable state of the budget store at most one budget
\* exists for each (category, month) pair.
C2_OneBudgetPerCategoryMonth ==
    \A i, j \in 1..Len(budgets) :
       (budgets[i].category = budgets[j].category
          /\ budgets[i].month = budgets[j].month) => i = j

\* C3: a create_transaction call with amount <= 0, or with a date that is
\* not a calendar date, returns False and changes neither the list nor the
\* persisted snapshot.
C3_CreateRejects ==
    [][ (/\ op'.name = "create_transaction"
         /\ \/ op'.args.amount <= 0
            \/ ~IsCalendarDate(op'.args.date))
        => (/\ op'.ret = FALSE
            /\ transactions' = transactions
            /\ tfile' = tfile) ]_vars

C3_Witness ==
    /\ op.name = "create_transaction"
    /\ op.args.amount <= 0
    /\ ~op.ret
    /\ Len(transactions) = 2
    /\ tfile.exists

\* C4: a create_transaction call with valid inputs on a store of n
\* transactions returns True, appends exactly one record at the end, gives
\* it the id "T" followed by n+1 zero-padded to six digits, and leaves the
\* n existing records and their order unchanged.
C4_CreateAppends ==
    [][ (/\ op'.name = "create_transaction"
         /\ op'.args.amount > 0
         /\ IsCalendarDate(op'.args.date))
        => (/\ op'.ret = TRUE
            /\ Len(transactions') = Len(transactions) + 1
            /\ SubSeq(transactions', 1, Len(transactions)) = transactions
            /\ LET id == transactions'[Len(transactions')].transaction_id
               IN  /\ Len(id) = 7
                   /\ id[1] = "T"
                   /\ IsDigits(SubSeq(id, 2, 7))
                   /\ Num(SubSeq(id, 2, 7)) = Len(transactions) + 1) ]_vars

C4_Witness ==
    /\ op.name = "create_transaction"
    /\ op.ret
    /\ Len(transactions) = 3
    /\ transactions[3].transaction_id = <<"T", "0", "0", "0", "0", "0", "3">>

\* C5: after a successful create_transaction that assigned the id X,
\* get_transaction_by_id(X) returns a record whose amount, type, category,
\* date and note are the inputs of that create.
C5_CreateThenGet ==
    [][ (/\ op.name = "create_transaction"
         /\ op.ret
         /\ op'.name = "get_transaction_by_id"
         /\ op'.args.id = transactions[Len(transactions)].transaction_id)
        => (/\ op'.res # <<>>
            /\ SameFields(transactions'[op'.res[1]], op.args)) ]_vars

\* C6: deleting an id that is in the store returns True, deleting the same
\* id again right after returns False, and after a successful delete
\* get_transaction_by_id of that id returns None.
C6_DeleteTwice ==
    [][ /\ (op'.name = "delete_transaction"
              /\ HoldsId(transactions, op'.args.id)) => op'.ret
        /\ (op.name = "delete_transaction" /\ op.ret
              /\ op'.name = "delete_transaction"
              /\ op'.args.id = op.args.id) => ~op'.ret
        /\ (op.name = "delete_transaction" /\ op.ret
              /\ op'.name = "get_transaction_by_id"
              /\ op'.args.id = op.args.id) => op'.res = <<>> ]_vars

\* C7: update_transaction returns False and changes neither the list nor
\* the persisted snapshot when the id is not in the store, or the amount is
\* <= 0, or the date is not a calendar date, also when the id exists.
C7_UpdateRejects ==
    [][ (/\ op'.name = "update_transaction"
         /\ \/ ~HoldsId(transactions, op'.args.id)
            \/ op'.args.a.amount <= 0
            \/ ~IsCalendarDate(op'.args.a.date))
        => (/\ op'.ret = FALSE
            /\ transactions' = transactions
            /\ tfile' = tfile) ]_vars

C7_Witness ==
    /\ op.name = "update_transaction"
    /\ ~op.ret
    /\ HoldsId(transactions, op.args.id)
    /\ op.args.a.amount > 0
    /\ ~IsCalendarDate(op.args.a.date)
    /\ Len(transactions) = 2

\* C8: a successful update_transaction replaces amount, type, category,
\* date and note of the first record with the id by the given values; that
\* record keeps its id and position, the length is unchanged and every
\* other record is unchanged.
C8_UpdateFrame ==
    [][ (op'.name = "update_transaction" /\ op'.ret)
        => \E i \in 1..Len(transactions) :
             /\ transactions[i].transaction_id = op'.args.id
             /\ \A j \in 1..(i - 1) :
                   transactions[j].transaction_id # op'.args.id
             /\ Len(transactions') = Len(transactions)
             /\ transactions'[i].transaction_id = op'.args.id
             /\ SameFields(transactions'[i], op'.args.a)
             /\ \A j \in 1..Len(transactions) :
                   j # i => transactions'[j] = transactions[j] ]_vars

\* an update of the first of two records that share an id
C8_Witness ==
    /\ op.name = "update_transaction"
    /\ op.ret
    /\ Len(transactions) = 3
    /\ transactions[2].transaction_id = op.args.id
    /\ transactions[3].transaction_id = op.args.id
    /\ SameFields(transactions[2], op.args.a)
    /\ ~SameFields(transactions[3], op.args.a)

\* C9: for valid dates a and b, get_transactions_by_date_range(a, b)
\* returns exactly the stored transactions whose date lies between a and b
\* as calendar dates, both bounds included, in store order; when a bound
\* is not a date it returns the empty list.
C9_DateRange ==
    op.name = "get_transactions_by_date_range" =>
       IF IsCalendarDate(op.args.start_date)
            /\ IsCalendarDate(op.args.end_date)
       THEN /\ Increasing(op.res)
            /\ Range(op.res) =
                 { i \in 1..Len(transactions) :
                     /\ DayNumber(op.args.start_date)
                          <= DayNumber(transactions[i].date)
                     /\ DayNumber(transactions[i].date)
                          <= DayNumber(op.args.end_date) }
       ELSE op.res = <<>>

\* a range that keeps a record dated on each bound and drops another
C9_Witness ==
    /\ op.name = "get_transactions_by_date_range"
    /\ op.args.start_date = D_2024_1_20
    /\ op.args.end_date = D_2024_02_10
    /\ Len(transactions) = 3
    /\ op.res = <<2, 3>>
    /\ transactions[2].date = D_2024_02_10
    /\ transactions[3].date = D_2024_1_20

\* the call with only one of the filters of f
OnlyKeyword(f) ==
    SearchArgs(f.keyword, NoType, EmptyStr, EmptyStr, EmptyStr,
               NoAmount, NoAmount)
OnlyType(f) ==
    SearchArgs(EmptyStr, f.type, EmptyStr, EmptyStr, EmptyStr,
               NoAmount, NoAmount)
OnlyCategory(f) ==
    SearchArgs(EmptyStr, NoType, f.category, EmptyStr, EmptyStr,
               NoAmount, NoAmount)
OnlyDates(f) ==
    SearchArgs(EmptyStr, NoType, EmptyStr, f.start_date, f.end_date,
               NoAmount, NoAmount)
OnlyMinAmount(f) ==
    SearchArgs(EmptyStr, NoType, EmptyStr, EmptyStr, EmptyStr,
               f.min_amount, NoAmount)
OnlyMaxAmount(f) ==
    SearchArgs(EmptyStr, NoType, EmptyStr, EmptyStr, EmptyStr,
               NoAmount, f.max_amount)

\* the number of filters a call gives
FiltersGiven(f) ==
    (IF f.keyword # EmptyStr THEN 1 ELSE 0)
      + (IF f.type # NoType THEN 1 ELSE 0)
      + (IF f.category # EmptyStr THEN 1 ELSE 0)
      + (IF f.start_date # EmptyStr /\ f.end_date # EmptyStr THEN 1 ELSE 0)
      + (IF f.min_amount # NoAmount THEN 1 ELSE 0)
      + (IF f.max_amount # NoAmount THEN 1 ELSE 0)

\* C10: search_transactions with several filters at once returns exactly
\* the intersection of the results of the calls with each of those filters
\* alone, in store order.
C10_SearchIntersection ==
    op.name = "search_transactions" =>
       /\ Increasing(op.res)
       /\ Range(op.res) =
            Range(SearchTransactions(transactions, OnlyKeyword(op.args)))
              \cap Range(SearchTransactions(transactions, OnlyType(op.args)))
              \cap Range(SearchTransactions(transactions, OnlyCategory(op.args)))
              \cap Range(SearchTransactions(transactions, OnlyDates(op.args)))
              \cap Range(SearchTransactions(transactions, OnlyMinAmount(op.args)))
              \cap Range(SearchTransactions(transactions, OnlyMaxAmount(op.args)))

\* four filters at once; the keyword alone and the type alone each keep
\* two records, not the same two, and the call keeps one
C10_Witness ==
    /\ op.name = "search_transactions"
    /\ FiltersGiven(op.args) >= 4
    /\ Len(transactions) = 3
    /\ Len(op.res) = 1
    /\ Len(SearchTransactions(transactions, OnlyKeyword(op.args))) = 2
    /\ Len(SearchTransactions(transactions, OnlyType(op.args))) = 2
    /\ SearchTransactions(transactions, OnlyKeyword(op.args))
         # SearchTransactions(transactions, OnlyType(op.args))

Mutations ==
    { "create_transaction", "update_transaction", "delete_transaction",
      "create_budget", "update_budget", "delete_budget" }

\* the file holds exactly the records of the list, field by field, in the
\* order of the list
FileHoldsTransactions(file, ts) ==
    /\ file.exists
    /\ ~file.torn
    /\ Len(file.data) = Len(ts)
    /\ \A i \in 1..Len(ts) :
          /\ file.data[i].transaction_id = ts[i].transaction_id
          /\ file.data[i].amount = ts[i].amount
          /\ file.data[i].type = ts[i].type
          /\ file.data[i].category = ts[i].category
          /\ file.data[i].date = ts[i].date
          /\ file.data[i].note = ts[i].note

FileHoldsBudgets(file, bs) ==
    /\ file.exists
    /\ ~file.torn
    /\ Len(file.data) = Len(bs)
    /\ \A i \in 1..Len(bs) :
          /\ file.data[i].budget_id = bs[i].budget_id
          /\ file.data[i].category = bs[i].category
          /\ file.data[i].amount = bs[i].amount
          /\ file.data[i].month = bs[i].month
          /\ file.data[i].note = bs[i].note

\* C11: when a create, update or delete of either service has returned True
\* and its save did not fail, the persisted snapshot is the whole in-memory
\* collection: the same records, field values and order.
C11_SnapshotIsCollection ==
    (op.name \in Mutations /\ op.ret /\ op.save = SaveOk) =>
       /\ op.name \in {"create_transaction", "update_transaction",
                       "delete_transaction"}
            => FileHoldsTransactions(tfile, transactions)
       /\ op.name \in {"create_budget", "update_budget", "delete_budget"}
            => FileHoldsBudgets(bfile, budgets)

\* a delete whose save succeeds after an earlier save had failed
C11_Witness ==
    /\ op.name = "delete_transaction"
    /\ op.ret
    /\ op.save = SaveOk
    /\ fails = 1
    /\ Len(transactions) = 2

\* C12: after a save of N transactions, a new TransactionService on the
\* same file holds N records equal to the saved ones in every field and in
\* the same order.
C12_SaveThenLoad ==
    [][ (/\ op.name \in {"create_transaction", "update_transaction",
                         "delete_transaction"}
         /\ op.ret
         /\ op.save = SaveOk
         /\ op'.name = "TransactionService_init")
        => transactions' = transactions ]_vars

\* a service constructed on the file of three transactions, one with a note
C12_Witness ==
    /\ op.name = "TransactionService_init"
    /\ fails = 0
    /\ Len(transactions) = 3
    /\ transactions[2].note = Lunch
    /\ FileHoldsTransactions(tfile, transactions)

\* C13: create_budget returns False and changes neither the budget list nor
\* the persisted snapshot when the amount is <= 0 or a budget of the same
\* category and month exists; the existing budget keeps its amount.
C13_CreateBudgetRejects ==
    [][ (/\ op'.name = "create_budget"
         /\ \/ op'.args.amount <= 0
            \/ \E i \in 1..Len(budgets) :
                  /\ budgets[i].category = op'.args.category
                  /\ budgets[i].month = op'.args.month)
        => (/\ op'.ret = FALSE
            /\ budgets' = budgets
            /\ bfile' = bfile) ]_vars

\* a positive amount rejected for a pair held by the second of two
\* budgets, whose amount is another one
C13_Witness ==
    /\ op.name = "create_budget"
    /\ ~op.ret
    /\ op.args.amount > 0
    /\ Len(budgets) = 2
    /\ budgets[2].category = op.args.category
    /\ budgets[2].month = op.args.month
    /\ budgets[2].amount > 0
    /\ budgets[2].amount # op.args.amount
    /\ ~(budgets[1].category = op.args.category
           /\ budgets[1].month = op.args.month)

\* C17: in every state reached by create_transaction, update_transaction
\* and delete_transaction from the empty store, every stored transaction
\* has an amount > 0 and a date that is a calendar date written as
\* year-month-day.
C17_StoredTransactionsValid ==
    \A i \in 1..Len(transactions) :
       /\ transactions[i].amount > 0
       /\ IsCalendarDate(transactions[i].date)

\* a full store, one date written without leading zero, after an update
\* with an amount <= 0 of an id it holds was turned down
C17_Witness ==
    /\ op.name = "update_transaction"
    /\ ~op.ret
    /\ HoldsId(transactions, op.args.id)
    /\ op.args.a.amount <= 0
    /\ Len(transactions) = 3
    /\ \E i \in 1..3 : transactions[i].date = D_2024_1_20

\* C18: in every state reached by create_budget, update_budget and
\* delete_budget from the empty store, every stored budget has an
\* amount > 0.
C18_StoredBudgetsPositive ==
    \A i \in 1..Len(budgets) : budgets[i].amount > 0

\* C19: search_transactions given a start and an end date of which at
\* least one is not a calendar date returns the empty result.
C19_SearchBadDates ==
    (/\ op.name = "search_transactions"
     /\ op.args.start_date # EmptyStr
     /\ op.args.end_date # EmptyStr
     /\ \/ ~IsCalendarDate(op.args.start_date)
        \/ ~IsCalendarDate(op.args.end_date))
    => op.res = <<>>

\* the sum of the amounts of the transactions at the positions S
RECURSIVE AmountSum(_, _)
AmountSum(ts, S) ==
    IF S = {} THEN 0
    ELSE LET i == CHOOSE j \in S : TRUE
         IN  ts[i].amount + AmountSum(ts, S \ {i})

\* the positions of the transactions of a type dated from a to b
InRange(ts, type, a, b) ==
    { i \in 1..Len(ts) :
        /\ ts[i].type = type
        /\ DayNumber(a) <= DayNumber(ts[i].date)
        /\ DayNumber(ts[i].date) <= DayNumber(b) }

StatCalls ==
    { "calculate_total_income", "calculate_total_expense",
      "calculate_net_balance" }

\* C16: for calendar dates a and b, calculate_total_income(a, b) is the sum
\* of the amounts of the income transactions of the list as it is at the
\* call that are dated from a to b, both included,
\* calculate_total_expense the same for the expense transactions, and
\* calculate_net_balance the first minus the second.
C16_Totals ==
    (/\ op.name \in StatCalls
     /\ IsCalendarDate(op.args.start_date)
     /\ IsCalendarDate(op.args.end_date))
    => LET a == op.args.start_date
           b == op.args.end_date
           income == AmountSum(transactions, InRange(transactions, INCOME, a, b))
           expense == AmountSum(transactions, InRange(transactions, EXPENSE, a, b))
       IN  /\ op.name = "calculate_total_income" => op.res = income
           /\ op.name = "calculate_total_expense" => op.res = expense
           /\ op.name = "calculate_net_balance" => op.res = income - expense

\* a net balance of an income and an expense in the range and an expense
\* after it, on a list whose first record has been deleted
C16_Witness ==
    /\ op.name = "calculate_net_balance"
    /\ op.args.start_date = D_2024_01_05
    /\ op.args.end_date = D_2024_1_20
    /\ op.res = 1
    /\ Len(transactions) = 3
    /\ transactions[1].transaction_id # TransactionId(1)
    /\ \E i \in 1..3 : transactions[i].date = D_2024_02_10
    /\ InRange(transactions, INCOME, D_2024_01_05, D_2024_1_20) # {}
    /\ InRange(transactions, EXPENSE, D_2024_01_05, D_2024_1_20) # {}

\* the year and month a string names when written year-month, the month
\* with or without a leading zero; <<0, 0>> if none
MonthOf(s) ==
    IF \E y \in CalendarYears, m \in 1..12 :
          s \in {StrNat(y) \o <<"-">> \o StrNat(m),
                 StrNat(y) \o <<"-">> \o Pad2(m)}
    THEN CHOOSE ym \in CalendarYears \X (1..12) :
           s \in {StrNat(ym[1]) \o <<"-">> \o StrNat(ym[2]),
                  StrNat(ym[1]) \o <<"-">> \o Pad2(ym[2])}
    ELSE <<0, 0>>

\* C20: get_transactions_by_month of a string that names a month returns
\* exactly the stored transactions dated in that calendar month, first and
\* last day included, in store order, December included; of a string that
\* names no month it returns the empty list.
C20_ByMonth ==
    op.name = "get_transactions_by_month" =>
       IF MonthOf(op.args.month) # <<0, 0>>
       THEN /\ Increasing(op.res)
            /\ Range(op.res) =
                 { i \in 1..Len(transactions) :
                     /\ DayOf[transactions[i].date][1] = MonthOf(op.args.month)[1]
                     /\ DayOf[transactions[i].date][2] = MonthOf(op.args.month)[2] }
       ELSE op.res = <<>>

\* the positions of the expense transactions of a category dated in the
\* month a string names
ExpensesOfMonth(ts, category, month) ==
    { i \in 1..Len(ts) :
        /\ ts[i].type = EXPENSE
        /\ ts[i].category = category
        /\ DayOf[ts[i].date][1] = MonthOf(month)[1]
        /\ DayOf[ts[i].date][2] = MonthOf(month)[2] }

\* C14: for every budget b of the month given to get_budget_analysis, the
\* entry of b.category has budget_amount = b.amount, actual_expense = the
\* sum of the amounts of the expense transactions dated in the month whose
\* category is exactly b.category, remaining = budget_amount -
\* actual_expense, usage_rate = actual_expense / budget_amount * 100 and
\* is_over_budget = (actual_expense > budget_amount), so that
\* is_over_budget holds exactly when remaining < 0.
C14_BudgetAnalysis ==
    op.name = "get_budget_analysis" =>
       \A i \in 1..Len(budgets) :
          budgets[i].month = op.args.month =>
             /\ budgets[i].category \in DOMAIN op.res
             /\ LET b == budgets[i]
                    e == op.res[b.category]
                    actual == AmountSum(transactions,
                                ExpensesOfMonth(transactions, b.category,
                                                op.args.month))
                IN  /\ e.budget_amount = b.amount
                    /\ e.actual_expense = actual
                    /\ e.remaining = e.budget_amount - e.actual_expense
                    /\ e.usage_rate * e.budget_amount = e.actual_expense * 100
                    /\ e.is_over_budget = (e.actual_expense > e.budget_amount)
                    /\ e.is_over_budget = (e.remaining < 0)

\* C15: get_budget_analysis(month) has one entry per budget of the month:
\* its keys are the categories that have a budget of the month, and it has
\* as many entries as there are budgets of the month.
C15_OneEntryPerBudget ==
    op.name = "get_budget_analysis" =>
       /\ DOMAIN op.res =
            { budgets[i].category :
                i \in { j \in 1..Len(budgets) :
                          budgets[j].month = op.args.month } }
       /\ Cardinality(DOMAIN op.res) =
            Cardinality({ j \in 1..Len(budgets) :
                            budgets[j].month = op.args.month })

\* a call that gives no filter but amount bounds
OnlyAmounts(f) ==
    /\ f.keyword = EmptyStr
    /\ f.type = NoType
    /\ f.category = EmptyStr
    /\ f.start_date = EmptyStr
    /\ f.end_date = EmptyStr

\* C22: the amount bounds of search_transactions are independent and
\* inclusive: a call with amount bounds only returns, in store order, every
\* transaction whose amount is >= min_amount if that is given and
\* <= max_amount if that is given.
C22_AmountBounds ==
    (op.name = "search_transactions" /\ OnlyAmounts(op.args)) =>
       /\ Increasing(op.res)
       /\ Range(op.res) =
            { i \in 1..Len(transactions) :
                /\ op.args.min_amount # NoAmount
                     => transactions[i].amount >= op.args.min_amount[1]
                /\ op.args.max_amount # NoAmount
                     => transactions[i].amount <= op.args.max_amount[1] }

\* both bounds given and equal: the records of that amount are returned
\* and a record of another amount is not
C22_Witness ==
    /\ op.name = "search_transactions"
    /\ OnlyAmounts(op.args)
    /\ op.args.min_amount = <<2>>
    /\ op.args.max_amount = <<2>>
    /\ Len(transactions) = 3
    /\ Len(op.res) = 2
    /\ \A k \in 1..2 : transactions[op.res[k]].amount = 2

\* the ids of a list, in order
Ids(ts) == [i \in 1..Len(ts) |-> ts[i].transaction_id]

T000001 == <<"T", "0", "0", "0", "0", "0", "1">>
T000002 == <<"T", "0", "0", "0", "0", "0", "2">>
T000003 == <<"T", "0", "0", "0", "0", "0", "3">>

\* C25: from the empty store, after three creates and the delete of the
\* second record (T000002), the store holds T000001 and T000003; the next
\* valid create returns True and gives the new record the id T000003, the
\* id of a record still in the store, so two stored records share it.
C25_IdCollision ==
    [][ (/\ op.name = "delete_transaction"
         /\ op.args.id = T000002
         /\ op.ret
         /\ Ids(transactions) = <<T000001, T000003>>
         /\ op'.name = "create_transaction"
         /\ op'.args.amount > 0
         /\ IsCalendarDate(op'.args.date))
        => (/\ op'.ret
            /\ Len(transactions') = 3
            /\ transactions'[3].transaction_id = T000003
            /\ transactions'[2] = transactions[2]
            /\ transactions'[2].transaction_id = T000003) ]_vars

C25_Witness ==
    /\ op.name = "create_transaction"
    /\ op.ret
    /\ Ids(transactions) = <<T000001, T000003, T000003>>
    /\ transactions[2] # transactions[3]

HoldsBudgetId(bs, id) == \E i \in 1..Len(bs) : bs[i].budget_id = id

\* C26: update_budget of an id the store holds returns True, gives the
\* first budget of that id the amount, month and note of the call, keeps
\* its id and category and every other budget, and does not look for
\* another budget of the category and the new month: two budgets of one
\* (category, month) can result.
C26_UpdateBudgetFrame ==
    [][ (op'.name = "update_budget" /\ HoldsBudgetId(budgets, op'.args.id))
        => /\ op'.ret
           /\ Len(budgets') = Len(budgets)
           /\ \E i \in 1..Len(budgets) :
                 /\ budgets[i].budget_id = op'.args.id
                 /\ \A j \in 1..(i - 1) : budgets[j].budget_id # op'.args.id
                 /\ budgets'[i].budget_id = budgets[i].budget_id
                 /\ budgets'[i].category = budgets[i].category
                 /\ budgets'[i].amount = op'.args.amount
                 /\ budgets'[i].month = op'.args.month
                 /\ budgets'[i].note = op'.args.note
                 /\ \A j \in 1..Len(budgets) :
                       j # i => budgets'[j] = budgets[j] ]_vars

\* after an update that returned True the budget updated and another
\* budget have the same category and month
C26_Witness ==
    /\ op.name = "update_budget"
    /\ op.ret
    /\ op.args.amount > 0
    /\ Len(budgets) = 2
    /\ budgets[1].budget_id = op.args.id
    /\ budgets[1].month = op.args.month
    /\ budgets[2].month = op.args.month
    /\ budgets[2].category = budgets[1].category
    /\ budgets[2].budget_id # op.args.id

\* the call of f without its date bounds
WithoutDates(f) ==
    SearchArgs(f.keyword, f.type, f.category, EmptyStr, EmptyStr,
               f.min_amount, f.max_amount)

\* C27: search_transactions given exactly one of start_date and end_date
\* returns what the call with neither returns, the other filters being the
\* same.
C27_OneDateIgnored ==
    (/\ op.name = "search_transactions"
     /\ (op.args.start_date = EmptyStr) # (op.args.end_date = EmptyStr))
    => op.res = SearchTransactions(transactions, WithoutDates(op.args))

\* only the end date is given and the records returned are dated after it
C27_Witness ==
    /\ op.name = "search_transactions"
    /\ op.args.start_date = EmptyStr
    /\ op.args.end_date = D_2024_01_05
    /\ Len(op.res) = 2
    /\ \A k \in 1..2 :
          DayNumber(transactions[op.res[k]].date) > DayNumber(D_2024_01_05)

\* C29: delete_transaction of an id the store holds returns True and
\* removes the first record of that id and no other: the length goes down
\* by one and the other records, a later record of the same id too, stay
\* as they are and in their order; of an id the store does not hold it
\* returns False and changes nothing.
C29_DeleteFrame ==
    [][ op'.name = "delete_transaction" =>
          IF HoldsId(transactions, op'.args.id)
          THEN /\ op'.ret
               /\ Len(transactions') = Len(transactions) - 1
               /\ \E i \in 1..Len(transactions) :
                     /\ transactions[i].transaction_id = op'.args.id
                     /\ \A j \in 1..(i - 1) :
                           /\ transactions[j].transaction_id # op'.args.id
                           /\ transactions'[j] = transactions[j]
                     /\ \A j \in i..(Len(transactions) - 1) :
                           transactions'[j] = transactions[j + 1]
          ELSE /\ ~op'.ret
               /\ transactions' = transactions
               /\ tfile' = tfile ]_vars

\* the first of two records of one id has been deleted, the second stays
C29_Witness ==
    /\ op.name = "delete_transaction"
    /\ op.ret
    /\ Len(transactions) = 2
    /\ transactions[2].transaction_id = op.args.id
    /\ transactions[1].transaction_id # op.args.id

TransactionMutations ==
    { "create_transaction", "update_transaction", "delete_transaction" }

\* the list and the file of the service a mutation belongs to hold the
\* same records
MemoryIsDisk(name, ts, tf, bs, bf) ==
    IF name \in TransactionMutations
    THEN FileHoldsTransactions(tf, ts)
    ELSE FileHoldsBudgets(bf, bs)

\* C24: a create, update or delete whose save fails still returns True
\* with the list changed in memory and leaves the persisted snapshot as it
\* was before, so that memory and disk differ; once the save of a later
\* mutation succeeds they are equal again.
C24_SaveFailure ==
    [][ /\ (op'.name \in Mutations /\ op'.save \notin {SaveOk, NoSave})
           => /\ op'.ret
              /\ tfile' = tfile
              /\ bfile' = bfile
              /\ op'.name = "create_transaction"
                   => /\ Len(transactions') = Len(transactions) + 1
                      /\ SameFields(transactions'[Len(transactions')], op'.args)
              /\ op'.name = "delete_transaction"
                   => Len(transactions') = Len(transactions) - 1
              /\ op'.name = "create_budget"
                   => Len(budgets') = Len(budgets) + 1
              /\ op'.name = "delete_budget"
                   => Len(budgets') = Len(budgets) - 1
              /\ ~MemoryIsDisk(op'.name, transactions', tfile',
                               budgets', bfile')
        /\ (op'.name \in Mutations /\ op'.save = SaveOk)
           => MemoryIsDisk(op'.name, transactions', tfile',
                           budgets', bfile') ]_vars

\* C30: in every store reached by create_transaction and
\* update_transaction, the total of get_transaction_count_by_type is its
\* income count plus its expense count: every transaction of the range is
\* counted under exactly one of the two types.
C30_CountTotal ==
    op.name = "get_transaction_count_by_type" =>
       op.res.total = op.res.income + op.res.expense

\* C21: get_all_transactions returns the list of the store in its order,
\* and that order is changed by create (an append) and delete (a removal)
\* only: a read, a query or the refresh of a screen that received the list
\* leaves the list as it is.
C21_OrderKept ==
    [][ /\ op'.name = "get_all_transactions"
           => op'.res = [i \in 1..Len(transactions) |-> i]
        /\ op'.name \notin TransactionMutations
           => transactions' = transactions ]_vars

\* no element occurs twice in the list
NoRepeat(list) ==
    \A i, j \in 1..Len(list) : list[i] = list[j] => i = j

\* the category list of a type: the default names, then the names added
ListOfType(uc, t) == default_categories[t] \o uc[t]

\* C23: the category list of a type, the default names followed by the
\* names added, never holds a name twice: add_user_category of a name
\* that is in the list of the type, or of the empty name, returns False
\* and changes nothing, and a successful add appends the name to the list
\* of its type and changes nothing else.
C23_NoDuplicateCategory ==
    [][ /\ \A t \in {INCOME, EXPENSE} :
              NoRepeat(ListOfType(user_categories', t))
        /\ op'.name = "get_categories_by_type"
             => op'.res = ListOfType(user_categories, op'.args.type)
        /\ (/\ op'.name = "add_user_category"
            /\ \/ op'.args.category = EmptyStr
               \/ InList(op'.args.category,
                         ListOfType(user_categories, op'.args.type)))
             => (/\ ~op'.ret
                 /\ user_categories' = user_categories
                 /\ cfile' = cfile)
        /\ (op'.name = "add_user_category" /\ op'.ret)
             => user_categories' =
                  [user_categories EXCEPT
                     ![op'.args.type] = Append(@, op'.args.category)] ]_vars

\* a record of the file with the fields of t
InFile(file, t) ==
    \E k \in 1..Len(file.data) :
       /\ file.data[k].transaction_id = t.transaction_id
       /\ SameFields(file.data[k], t)

\* C28: of two services on one data file the last writer wins: after a
\* successful mutation of either, the file holds exactly the list of the
\* service that made it, whatever the list of the other service is; a
\* record the other service holds and the writer does not is not in the
\* file.
C28_LastWriterWins ==
    [][ /\ (op'.name \in {"create_transaction", "delete_transaction"}
              /\ op'.ret)
           => /\ FileHoldsTransactions(tfile', transactions')
              /\ \A i \in 1..Len(transactions2') :
                    ~(\E k \in 1..Len(transactions') :
                         transactions'[k] = transactions2'[i])
                      => ~InFile(tfile', transactions2'[i])
        /\ (op'.name = "second.create_transaction" /\ op'.ret)
           => /\ FileHoldsTransactions(tfile', transactions2')
              /\ \A i \in 1..Len(transactions') :
                    ~(\E k \in 1..Len(transactions2') :
                         transactions2'[k] = transactions'[i])
                      => ~InFile(tfile', transactions'[i]) ]_vars

\* the second service loaded one record, the first then created two more,
\* and the second saved last: the two records are not in the file
C28_Witness ==
    /\ op.name = "second.create_transaction"
    /\ op.ret
    /\ Len(transactions) = 3
    /\ Len(transactions2) = 2
    /\ transactions2[1] = transactions[1]
    /\ FileHoldsTransactions(tfile, transactions2)
    /\ ~InFile(tfile, transactions[2])
    /\ ~InFile(tfile, transactions[3])

=============================================================================
